---- MODULE Spec2Model ----
(***************************************************************************)
(* Model of rham/linear/firmware/src/encoder.cpp: the magnetic encoder     *)
(* driver.  encoder_init() configures the SPI bus and samples once,        *)
(* encoder_tick() samples when millis() is greater than last_update,       *)
(* encoder_read() returns the cached value, and the shell command `mag`    *)
(* prints it.  The handlers run on one thread, one statement at a time;    *)
(* the millisecond counter is hardware and advances between any two        *)
(* statements.                                                             *)
(***************************************************************************)
EXTENDS Integers, Sequences, FiniteSets, TLC

\* ------------------------------------------------------------------ bounds

\* Width of millis()'s counter in bits (unsigned long on the target is 32).
ClockBits == 2

\* encoder_init() is called at boot: it has returned before millis() passes
\* this value.
BootMs == 1

RECURSIVE Pow2(_)
Pow2(n) == IF n = 0 THEN 1 ELSE 2 * Pow2(n - 1)

ClockMod == Pow2(ClockBits)

\* The words the sensor clocks back in the behavioural model:
\* 0x003F (status bits only), 0x8000 and 0xFFC0.
BusWords == {63, 32768, 65472}

\* Every 16-bit word, for the decode check.
Words16 == 0 .. 65535

\* ------------------------------------------------------------------ pins

\* config.h: the clock, data and chip-select pins of the encoder.
ENCODER_SCK == "pin_sck"
ENCODER_DO == "pin_do"
ENCODER_SS == "pin_cs"

\* The core's default pins (pins_arduino.h).  MOSI is unused by the sensor.
MOSI == "pin_mosi"
BoardSS == {"pin_cs", "pin_ss"}

Level == {"LOW", "HIGH"}

VARIABLES
  clock,               \* millis(): milliseconds since boot, ClockBits wide
  last_update,         \* static unsigned long last_update
  last_encoder_value,  \* static uint16_t last_encoder_value
  value,               \* encoder_update's local: the word of the last transfer,
                       \* -1 before the first
  SS,                  \* the pin the core's macro SS names on this board
  pinDir,              \* pinMode of each pin the driver touches
  pinLevel,            \* output latch of each pin the driver touches
  spi,                 \* the SPI peripheral's configuration
  pc,                  \* the statement the thread executes next
  caller,              \* who called encoder_update: "init" or "tick"
  ret,                 \* the value encoder_read() returned last
  shellOut,            \* what `mag` printed last
  msXfers,             \* transfers performed since the clock last changed
  xferClock,           \* clock value at the last transfer
  curTick,             \* the running or last encoder_tick() call
  prevTick,            \* the encoder_tick() call before it
  tickedThisMs,        \* encoder_tick() was called since millis() last changed
  tickedEveryMs        \* and in every millisecond since encoder_init() returned

vars == <<clock, last_update, last_encoder_value, value, SS, pinDir, pinLevel,
          spi, pc, caller, ret, shellOut, msXfers, xferClock,
          curTick, prevTick, tickedThisMs, tickedEveryMs>>

\* The state the driver owns or drives.
driver == <<last_update, last_encoder_value, pinLevel, pinDir, spi>>

\* What the bus sees.
bus == <<value, msXfers, xferClock>>

Pins == {ENCODER_SCK, ENCODER_SS} \cup BoardSS

\* ---------------------------------------------------------------- decode

\* value >> n on an unsigned value.
ShiftRight(v, n) == v \div Pow2(n)

\* a & b on unsigned values, bit by bit.
RECURSIVE BitAnd(_, _)
BitAnd(a, b) ==
  IF a = 0 \/ b = 0 THEN 0
  ELSE (a % 2) * (b % 2) + 2 * BitAnd(a \div 2, b \div 2)

AngleShift == 6
AngleMask == 1023

\* A uint16_t keeps the low 16 bits.
U16(x) == x % 65536

DecodeShift5(v) == U16(BitAnd(ShiftRight(v, 5), AngleMask))

\* uint16_t angle = (value >> 6) & 0x3FF;
Decode(v) == U16(BitAnd(ShiftRight(v, AngleShift), AngleMask))

\* ------------------------------------------------------------------ init

\* No encoder_tick() call yet.  Of a call: whether millis() was greater
\* than last_update when it was made (due), the transfers it performed
\* (xfers), and whether millis() has kept the value it had then (same).
NoTick == [valid |-> FALSE, due |-> FALSE, xfers |-> 0, same |-> FALSE]

\* The running call also keeps the cached angle it found (angle0).
NoCurTick == [valid |-> FALSE, due |-> FALSE, xfers |-> 0, same |-> FALSE,
              angle0 |-> 0]

Init ==
  /\ clock = 0
  /\ last_update = 0
  /\ last_encoder_value = 0
  /\ value = -1
  /\ SS \in BoardSS
  /\ pinDir = [p \in Pins |-> "INPUT"]
  /\ pinLevel \in [Pins -> Level]
  /\ \A p \in BoardSS \ {SS, ENCODER_SS} : pinLevel[p] = "LOW"
  /\ spi = [begun |-> FALSE]
  /\ pc = "boot"
  /\ caller = "none"
  /\ ret = 0
  /\ shellOut = <<>>
  /\ msXfers = 0
  /\ xferClock = 0
  /\ curTick = NoCurTick
  /\ prevTick = NoTick
  /\ tickedThisMs = FALSE
  /\ tickedEveryMs = FALSE

\* ----------------------------------------------------------------- clock

\* encoder_init() has not returned yet.
InInit == pc \in {"boot", "init_pinmode", "init_sck"} \/ caller = "init"

\* millis() advances by one millisecond and wraps at its width.
Advance ==
  /\ InInit => clock < BootMs
  /\ clock' = (clock + 1) % ClockMod
  /\ msXfers' = 0
  /\ curTick' = [curTick EXCEPT !.same = FALSE]
  /\ prevTick' = [prevTick EXCEPT !.same = FALSE]
  /\ tickedThisMs' = FALSE
  /\ tickedEveryMs' = (tickedEveryMs /\ tickedThisMs)
  /\ UNCHANGED <<last_update, last_encoder_value, value, SS, pinDir, pinLevel,
                 spi, pc, caller, ret, shellOut, xferClock>>

\* ---------------------------------------------------------- encoder_init

\* SPI.begin(ENCODER_SCK, ENCODER_DO, MOSI, ENCODER_SS); setBitOrder;
\* setFrequency; setDataMode.
InitSpi ==
  /\ pc = "boot"
  /\ spi' = [begun |-> TRUE, sck |-> ENCODER_SCK, miso |-> ENCODER_DO,
             mosi |-> MOSI, ss |-> ENCODER_SS, bitOrder |-> "MSBFIRST",
             frequency |-> 1000000, dataMode |-> "SPI_MODE1"]
  /\ pc' = "init_pinmode"
  /\ UNCHANGED <<clock, last_update, last_encoder_value, value, SS, pinDir,
                 pinLevel, caller, ret, shellOut, msXfers, xferClock,
                 curTick, prevTick, tickedThisMs, tickedEveryMs>>

\* pinMode(ENCODER_SS, OUTPUT);
InitPinMode ==
  /\ pc = "init_pinmode"
  /\ pinDir' = [pinDir EXCEPT ![ENCODER_SS] = "OUTPUT"]
  /\ pc' = "init_sck"
  /\ UNCHANGED <<clock, last_update, last_encoder_value, value, SS, pinLevel,
                 spi, caller, ret, shellOut, msXfers, xferClock,
                 curTick, prevTick, tickedThisMs, tickedEveryMs>>

\* encoder_init without its call of encoder_update.
InitWriteNoSample ==
  /\ pc = "init_sck"
  /\ pinLevel' = [pinLevel EXCEPT ![ENCODER_SCK] = "HIGH"]
  /\ pc' = "idle"
  /\ UNCHANGED <<clock, last_update, last_encoder_value, value, SS, pinDir,
                 spi, caller, ret, shellOut, msXfers, xferClock, curTick,
                 prevTick, tickedThisMs, tickedEveryMs>>

\* digitalWrite(ENCODER_SCK, HIGH); encoder_update();
InitWrite ==
  /\ pc = "init_sck"
  /\ pinLevel' = [pinLevel EXCEPT ![ENCODER_SCK] = "HIGH"]
  /\ caller' = "init"
  /\ pc' = "upd_assert"
  /\ UNCHANGED <<clock, last_update, last_encoder_value, value, SS, pinDir,
                 spi, ret, shellOut, msXfers, xferClock, curTick,
                 prevTick, tickedThisMs, tickedEveryMs>>

\* -------------------------------------------------------- encoder_update

\* digitalWrite(SS, LOW);
UpdAssert ==
  /\ pc = "upd_assert"
  /\ pinLevel' = [pinLevel EXCEPT ![SS] = "LOW"]
  /\ pc' = "upd_transfer"
  /\ UNCHANGED <<clock, last_update, last_encoder_value, value, SS, pinDir,
                 spi, caller, ret, shellOut, msXfers, xferClock,
                 curTick, prevTick, tickedThisMs, tickedEveryMs>>

\* delayMicroseconds(1); uint16_t value = SPI.transfer16(0);
\* the sensor clocks back the word w.
Transfer(w) ==
  /\ pc = "upd_transfer"
  /\ value' = w
  /\ msXfers' = msXfers + 1
  /\ xferClock' = clock
  /\ curTick' = IF caller = "tick"
                THEN [curTick EXCEPT !.xfers = @ + 1]
                ELSE curTick
  /\ pc' = "upd_deassert"
  /\ UNCHANGED <<clock, last_update, last_encoder_value, SS, pinDir, pinLevel,
                 spi, caller, ret, shellOut, prevTick, tickedThisMs,
                 tickedEveryMs>>

UpdTransfer == pc = "upd_transfer" /\ \E w \in BusWords : Transfer(w)

\* The same statement with the sensor free to return any 16-bit word.
UpdTransferAny == pc = "upd_transfer" /\ \E w \in Words16 : Transfer(w)

\* digitalWrite(SS, HIGH);
UpdDeassert ==
  /\ pc = "upd_deassert"
  /\ pinLevel' = [pinLevel EXCEPT ![SS] = "HIGH"]
  /\ pc' = "upd_store"
  /\ UNCHANGED <<clock, last_update, last_encoder_value, value, SS, pinDir,
                 spi, caller, ret, shellOut, msXfers, xferClock,
                 curTick, prevTick, tickedThisMs, tickedEveryMs>>

\* uint16_t angle = (value >> 6) & 0x3FF; last_encoder_value = angle;
\* and the return to encoder_init or encoder_tick, which return in turn.
UpdStore ==
  /\ pc = "upd_store"
  /\ last_encoder_value' = Decode(value)
  /\ caller' = "none"
  /\ pc' = "idle"
  /\ tickedEveryMs' = (IF caller = "init" THEN TRUE ELSE tickedEveryMs)
  /\ UNCHANGED <<clock, last_update, value, SS, pinDir, pinLevel, spi, ret,
                 shellOut, msXfers, xferClock, curTick, prevTick,
                 tickedThisMs>>

\* ---------------------------------------------------------- encoder_tick

TickDueGE(now, lu) == now >= lu

TickDueLate(now, lu) == now > lu + 1

\* millis() > last_update
TickDue(now, lu) == now > lu

\* if (millis() > last_update): the call, its reading of millis() and the
\* comparison.  When the test fails the call returns.
TickCheck ==
  /\ pc = "idle"
  /\ prevTick' = [valid |-> curTick.valid, due |-> curTick.due,
                  xfers |-> curTick.xfers, same |-> curTick.same]
  /\ curTick' = [valid |-> TRUE, due |-> clock > last_update, xfers |-> 0,
                 same |-> TRUE, angle0 |-> last_encoder_value]
  /\ IF TickDue(clock, last_update)
     THEN pc' = "tick_stamp"
     ELSE pc' = "idle"
  /\ tickedThisMs' = TRUE
  /\ UNCHANGED <<clock, last_update, last_encoder_value, value, SS, pinDir,
                 pinLevel, spi, caller, ret, shellOut, msXfers, xferClock,
                 tickedEveryMs>>

\* last_update = millis(); encoder_update();
TickStamp ==
  /\ pc = "tick_stamp"
  /\ last_update' = clock
  /\ caller' = "tick"
  /\ pc' = "upd_assert"
  /\ UNCHANGED <<clock, last_encoder_value, value, SS, pinDir, pinLevel, spi,
                 ret, shellOut, msXfers, xferClock, curTick, prevTick,
                 tickedThisMs, tickedEveryMs>>

\* ------------------------------------------------- encoder_read and `mag`

\* An encoder_read that restarts the rate limit.
encoder_read_stamps ==
  /\ pc \in {"boot", "idle"}
  /\ ret' = last_encoder_value
  /\ last_update' = 0
  /\ UNCHANGED <<clock, last_encoder_value, value, SS, pinDir, pinLevel, spi,
                 pc, caller, shellOut, msXfers, xferClock, curTick, prevTick,
                 tickedThisMs, tickedEveryMs>>

\* return last_encoder_value;
encoder_read ==
  /\ pc \in {"boot", "idle"}
  /\ ret' = last_encoder_value
  /\ UNCHANGED <<clock, last_update, last_encoder_value, value, SS, pinDir,
                 pinLevel, spi, pc, caller, shellOut, msXfers, xferClock,
                 curTick, prevTick, tickedThisMs, tickedEveryMs>>

\* shell_stream()->printf("Value: %d\r\n", encoder_read());
shell_mag ==
  /\ pc \in {"boot", "idle"}
  /\ ret' = last_encoder_value
  /\ shellOut' = <<"Value: ", ret', "\r\n">>
  /\ UNCHANGED <<clock, last_update, last_encoder_value, value, SS, pinDir,
                 pinLevel, spi, pc, caller, msXfers, xferClock, curTick,
                 prevTick, tickedThisMs, tickedEveryMs>>

\* ------------------------------------------------------------------ spec

Next ==
  \/ Advance
  \/ InitSpi
  \/ InitPinMode
  \/ InitWrite
  \/ UpdAssert
  \/ UpdTransfer
  \/ UpdDeassert
  \/ UpdStore
  \/ TickCheck
  \/ TickStamp
  \/ encoder_read
  \/ shell_mag

Spec == Init /\ [][Next]_vars

\* encoder_init alone, started at millisecond 0 on a board whose SS is the
\* encoder's chip-select, with the sensor returning any 16-bit word.
DecodeInit ==
  /\ Init
  /\ SS = ENCODER_SS
  /\ pinLevel = [p \in Pins |-> "LOW"]

DecodeNext ==
  \/ InitSpi
  \/ InitPinMode
  \/ InitWrite
  \/ UpdAssert
  \/ UpdTransferAny
  \/ UpdDeassert
  \/ UpdStore

DecodeSpec == DecodeInit /\ [][DecodeNext]_vars

TypeOK ==
  /\ clock \in 0 .. ClockMod - 1
  /\ last_update \in 0 .. ClockMod - 1
  /\ last_encoder_value \in 0 .. 65535
  /\ (value = -1 \/ value \in Words16)
  /\ SS \in BoardSS
  /\ pinDir \in [Pins -> {"INPUT", "OUTPUT"}]
  /\ pinLevel \in [Pins -> Level]
  /\ pc \in {"boot", "init_pinmode", "init_sck", "upd_assert", "upd_transfer",
             "upd_deassert", "upd_store", "tick_stamp", "idle"}
  /\ caller \in {"none", "init", "tick"}
  /\ msXfers \in 0 .. 2
  /\ xferClock \in 0 .. ClockMod - 1
  /\ curTick.xfers \in 0 .. 1
  /\ prevTick.xfers \in 0 .. 1
  /\ tickedThisMs \in BOOLEAN
  /\ tickedEveryMs \in BOOLEAN

\* ---------------------------------------------------------------- claims

\* C1: a tick() called while millis() is strictly greater than last_update
\* performs exactly one transfer and leaves the cached angle equal to the
\* decode of the word that transfer captured, also when that decode equals
\* the angle cached before.
C1_DueTickSamplesOnce ==
  (pc = "idle" /\ curTick.valid /\ curTick.due) =>
    /\ curTick.xfers = 1
    /\ last_encoder_value = (value \div 64) % 1024

\* A due tick has returned after sampling a word whose decode is the angle
\* that was cached when it was called.
C1_Witness ==
  /\ pc = "idle"
  /\ curTick.valid /\ curTick.due /\ curTick.xfers = 1
  /\ value = 32768
  /\ curTick.angle0 = 512
  /\ last_encoder_value = 512

\* Two consecutive tick() calls with millis() unchanged since the first was
\* made, both returned.
TickPairInOneMs ==
  pc = "idle" /\ prevTick.valid /\ prevTick.same /\ curTick.valid

\* C2 as stated: two consecutive tick() calls made within one millisecond
\* value perform exactly one transfer in total, not two and not zero.
C2_ExactlyOnePerPair ==
  TickPairInOneMs => prevTick.xfers + curTick.xfers = 1

\* C2 amended: two consecutive tick() calls made within one millisecond
\* value perform one transfer in total when millis() was greater than
\* last_update at the first call and none otherwise; the second call never
\* samples; and a tick() that finds millis() not greater than last_update
\* returns having changed neither the cached angle, last_update nor any pin.
C2_AtMostOnePerPair ==
  /\ [](TickPairInOneMs =>
         /\ prevTick.xfers + curTick.xfers = (IF prevTick.due THEN 1 ELSE 0)
         /\ ~curTick.due
         /\ curTick.xfers = 0)
  /\ [][(TickCheck /\ ~(clock > last_update)) =>
         /\ pc' = "idle"
         /\ UNCHANGED <<last_encoder_value, last_update, pinLevel, value,
                        msXfers>>]_vars

\* Two ticks within one millisecond: the first sampled, the second did not.
C2_Witness ==
  /\ TickPairInOneMs
  /\ prevTick.due /\ prevTick.xfers = 1
  /\ ~curTick.due /\ curTick.xfers = 0
  /\ clock > 0

\* C3 as stated: no two transfers, the one of init() included, are performed
\* while millis() reports the same millisecond.
C3_OneTransferPerMs == msXfers <= 1

\* C4: encoder_read() and `mag` perform no transfer and change no state of
\* the driver or the bus; they return (print) the cached angle, which only
\* encoder_update's store changes, so reads with no tick() or init() between
\* them return the same value and ticks sample as they would without them.
C4_ReadChangesNothing ==
  /\ [][(encoder_read \/ shell_mag) =>
         /\ UNCHANGED <<driver, bus, clock, pc, caller, curTick, prevTick,
                        tickedThisMs, tickedEveryMs>>
         /\ ret' = last_encoder_value]_vars
  /\ [][shell_mag => shellOut' = <<"Value: ", last_encoder_value, "\r\n">>]_vars
  /\ [][last_encoder_value' # last_encoder_value => pc = "upd_store"]_vars

\* After init() and a sampling tick(), a read and a `mag` have returned the
\* cached non-zero angle.
C4_Witness ==
  /\ pc = "idle"
  /\ curTick.valid /\ curTick.xfers = 1
  /\ last_encoder_value = 1023
  /\ ret = 1023
  /\ shellOut = <<"Value: ", 1023, "\r\n">>
  /\ last_update > 0

\* C5: whenever init() has returned and no call is running, the cached angle
\* is the decode of the word captured by the most recent transfer; a transfer
\* has been performed, so it is no placeholder.
C5_CachedIsLastTransfer ==
  pc = "idle" =>
    /\ value \in Words16
    /\ last_encoder_value = BitAnd(value \div 64, 1023)

\* init() sampled 0x8000 (angle 512); a later tick() sampled 0xFFC0 and the
\* cached angle and a read of it are 1023.
C5_Witness ==
  /\ pc = "idle"
  /\ curTick.valid /\ curTick.xfers = 1 /\ curTick.angle0 = 512
  /\ ~prevTick.valid
  /\ value = 65472
  /\ last_encoder_value = 1023
  /\ ret = 1023

\* C6: for every captured 16-bit word V the stored angle is (V div 64) mod
\* 1024, hence within 0..1023; 0xFFFF and 0xFFC0 give 1023, 0x0040 gives 1,
\* 0x0000 gives 0 and 0x8000 gives 512.
C6_DecodeIsShiftAndMask ==
  pc = "idle" =>
    /\ last_encoder_value = (value \div 64) % 1024
    /\ last_encoder_value \in 0 .. 1023
    /\ (value \in {65535, 65472} => last_encoder_value = 1023)
    /\ (value = 64 => last_encoder_value = 1)
    /\ (value = 0 => last_encoder_value = 0)
    /\ (value = 32768 => last_encoder_value = 512)

\* init() has stored the decode of 0xFFFF.
C6_Witness == pc = "idle" /\ value = 65535 /\ last_encoder_value = 1023

\* C7 as stated: when init() reaches encoder_update's first assert, the
\* chip-select pin is an output that init() has driven HIGH.
C7_InitDrivesSelectIdle ==
  (pc = "upd_assert" /\ caller = "init") =>
    /\ pinDir[ENCODER_SS] = "OUTPUT"
    /\ pinLevel[ENCODER_SS] = "HIGH"
    /\ pinLevel[SS] = "HIGH"

C9_StampIsLastTransferTime == pc = "idle" => last_update = xferClock

\* C10 as stated: with millis() wrapping at its width and tick() called in
\* every millisecond since init() returned, every millisecond in which a
\* tick() call was made and has returned has had a transfer.
C10_SampledEveryMs ==
  (pc = "idle" /\ tickedEveryMs /\ curTick.valid /\ curTick.same) =>
    msXfers >= 1

====
